---- MODULE Spec2Model ----
(***************************************************************************)
(* Robust random cut tree (rrcf.py): construction by random cuts, leaf     *)
(* deletion, partition query and the displacement scores.                  *)
(*                                                                         *)
(* Objects live in a heap `nodes` (object id -> record of its slots).      *)
(* Coordinates are integers; a threshold p drawn by np.random.uniform is   *)
(* represented by its floor, which decides every comparison                *)
(* coordinate <= p  on integer coordinates.                                *)
(***************************************************************************)
EXTENDS Integers, Sequences, FiniteSets, TLC

\* ---------------------------------------------------------------- bounds
MaxN == 4                 \* largest batch size X.shape[0]
MaxFresh == 6             \* largest batch size when only construction is explored

\* sys.getrecursionlimit(), scaled down: _mktree activations that may be
\* pending at once.  No batch of the model needs more than MaxFresh - 1.
RecursionLimit == MaxFresh + 1

\* ------------------------------------------------------------- constants
NDim == 2                 \* X.shape[1]
Nil == 0                  \* None
Self == -1                \* the RCTree object (parent of the root while building)

\* The points batches are drawn from: the first n rows, 2 <= n <= MaxN.
\* The points are pairwise distinct; a cut on dimension 1 separates them
\* differently from any cut on dimension 0.
Pool == << <<0, 1>>, <<1, 0>>, <<2, 1>>, <<3, 0>>, <<4, 1>>, <<5, 0>>, <<6, 1>>, <<7, 0>> >>

Row(i) == [j \in 0..(NDim - 1) |-> Pool[i + 1][j + 1]]

Batch(n) == [i \in 0..(n - 1) |-> Row(i)]

Batches == { Batch(n) : n \in 2..MaxN }

FreshBatches == { Batch(n) : n \in 2..MaxFresh }

\* Batches holding coincident points: rows 0, 0, 1, 1, ...
CoincidentBatches == { [i \in 0..(n - 1) |-> Row(i \div 2)] : n \in 2..MaxN }

VARIABLES X,        \* the point batch, index -> point
          nodes,    \* heap: object id -> Branch or Leaf record
          root,     \* self.root
          leaves,   \* self.leaves: point index -> leaf object id
          stack,    \* pending _mktree activations (top is last)
          pc,       \* "mktree" while __init__ runs, then "ready" or "failed"
          ret,      \* outcome of the last call made on the tree
          clean     \* no delete_leaf call has raised so far

vars == <<X, nodes, root, leaves, stack, pc, ret, clean>>

\* ------------------------------------------------------------ node model
Branch(q, p, u) == [kind |-> "Branch", q |-> q, p |-> p, l |-> Nil, r |-> Nil,
                    u |-> u, n |-> 0]

Leaf(i, d, u) == [kind |-> "Leaf", i |-> i, d |-> d, u |-> u, n |-> 1]

isBranch(h, node) == node \in DOMAIN h /\ h[node].kind = "Branch"

isLeaf(h, node) == node \in DOMAIN h /\ h[node].kind = "Leaf"

\* Extend the heap with a fresh object.
alloc(h, id, obj) == [k \in DOMAIN h \cup {id} |-> IF k = id THEN obj ELSE h[k]]

newId(h) == Cardinality(DOMAIN h) + 1

\* --------------------------------------------------------------- helpers
SetMax(s) == CHOOSE m \in s : \A k \in s : k <= m

SetMin(s) == CHOOSE m \in s : \A k \in s : m <= k

\* ------------------------------------------------------------------ _cut
\* Per-dimension extent of the active subset S.
xmax(Xb, S) == [j \in 0..(NDim - 1) |-> SetMax({Xb[i][j] : i \in S})]

xmin(Xb, S) == [j \in 0..(NDim - 1) |-> SetMin({Xb[i][j] : i \in S})]

\* l.sum() = 0: every point of S is the same point, and l /= l.sum() is NaN.
degenerate(Xb, S) == \A j \in 0..(NDim - 1) : xmax(Xb, S)[j] = xmin(Xb, S)[j]

\* The (q, p) pairs the sampler can return.
\*  - np.random.choice gives q with probability l[q] = (xmax[q]-xmin[q])/sum,
\*    so only a q of positive extent; handed a NaN distribution it returns
\*    an index all the same in the numpy releases that do not check for NaN.
\*  - np.random.uniform(low, high) computes low + (high - low) * u in
\*    doubles, u in [0, 1 - 2^-53]: the sum rounds, so p = high is returned
\*    too (2.0 + (3.0 - 2.0) * (1 - 2^-53) = 3.0).  p ranges over
\*    xmin[q]..xmax[q], both ends included.
cutChoices(Xb, S) ==
    { qp \in (0..(NDim - 1)) \X (SetMin({xmin(Xb, S)[j] : j \in 0..(NDim - 1)})
                                 ..SetMax({xmax(Xb, S)[j] : j \in 0..(NDim - 1)})) :
        /\ degenerate(Xb, S) \/ xmax(Xb, S)[qp[1]] - xmin(Xb, S)[qp[1]] > 0
        /\ xmin(Xb, S)[qp[1]] <= qp[2]
        /\ qp[2] <= xmax(Xb, S)[qp[1]] }

\* What lines 37-45 of _cut end with: a pair (q, p), or the ValueError
\* ("probabilities contain NaN") of the numpy releases that check.
cutOutcomes(Xb, S) ==
    { [exc |-> "None", q |-> qp[1], p |-> qp[2]] : qp \in cutChoices(Xb, S) }
    \cup (IF degenerate(Xb, S) THEN {[exc |-> "ValueError", q |-> 0, p |-> 0]}
                               ELSE {})

cutS1(Xb, S, q, p) == {i \in S : Xb[i][q] <= p}

cutS2(Xb, S, q, p) == S \ cutS1(Xb, S, q, p)

\* -------------------------------------------------------------- traverse
\* The nodes op is called on, in call order.  A node that is not a Branch
\* (a Leaf, or None) is handed to op as it is.
RECURSIVE traverse(_, _)
traverse(h, node) ==
    IF isBranch(h, node)
    THEN (IF h[node].l # Nil THEN traverse(h, h[node].l) ELSE <<>>)
         \o (IF h[node].r # Nil THEN traverse(h, h[node].r) ELSE <<>>)
    ELSE <<node>>

Range(s) == {s[k] : k \in 1..Len(s)}

\* ------------------------------------------------- _count_all_top_down
RECURSIVE _count_all_top_down(_, _)
_count_all_top_down(h, node) ==
    IF isBranch(h, node)
    THEN LET h1 == IF h[node].l # Nil THEN _count_all_top_down(h, h[node].l) ELSE h
             h2 == IF h1[node].r # Nil THEN _count_all_top_down(h1, h1[node].r) ELSE h1
         IN [h2 EXCEPT ![node].n = h2[h2[node].l].n + h2[h2[node].r].n]
    ELSE h

\* ---------------------------------------------------------------- state
NoRet == [op |-> "none", x |-> Nil, exc |-> "None", val |-> Nil]

Start(batches) ==
    /\ X \in batches
    /\ nodes = << >>
    /\ root = Nil
    /\ leaves = << >>
    /\ stack = << [S |-> DOMAIN X, parent |-> Self, side |-> "root", depth |-> 0,
                   at |-> "l", branch |-> Nil, S2 |-> {}] >>
    /\ pc = "mktree"
    /\ ret = NoRet
    /\ clean = TRUE

Init == Start(Batches)

InitFresh == Start(FreshBatches)

InitAny == Start(Batches \cup CoincidentBatches)

\* --------------------------------------------------------------- _mktree
Top == stack[Len(stack)]

Pop(st) == SubSeq(st, 1, Len(st) - 1)

Frame(S, parent, side, depth) ==
    [S |-> S, parent |-> parent, side |-> side, depth |-> depth,
     at |-> "l", branch |-> Nil, S2 |-> {}]

\* setattr(parent, side, child): the tree object takes the root, a Branch
\* takes its l or r.
link(h, parent, side, child) ==
    IF parent \in DOMAIN h
    THEN IF side = "l" THEN [h EXCEPT ![parent].l = child]
                       ELSE [h EXCEPT ![parent].r = child]
    ELSE h

\* Leaf(i, d = depth, u = branch) hung on the given side of branch.
addLeaf(h, branch, side, i, depth) ==
    link(alloc(h, newId(h), Leaf(i, depth, branch)), branch, side, newId(h))

\* The constructor ends with exception e: no tree is returned, what was
\* built so far is dropped.
Failed(e) ==
    /\ pc' = "failed"
    /\ ret' = [op |-> "__init__", x |-> Nil, exc |-> e, val |-> Nil]
    /\ nodes' = << >>
    /\ root' = Nil
    /\ leaves' = << >>
    /\ stack' = << >>
    /\ UNCHANGED <<X, clean>>

\* _mktree lines 57-73: the cut, the new Branch, and the left side.  A call
\* deeper than the interpreter's recursion limit raises RecursionError;
\* np.asscalar of an empty np.flatnonzero raises ValueError.
MktreeLeft ==
    /\ pc = "mktree" /\ stack # << >> /\ Top.at = "l"
    /\ IF Len(stack) > RecursionLimit
       THEN Failed("RecursionError")
       ELSE \E cut \in cutOutcomes(X, Top.S) :
         LET depth  == Top.depth + 1
             S1     == cutS1(X, Top.S, cut.q, cut.p)
             S2     == cutS2(X, Top.S, cut.q, cut.p)
             branch == newId(nodes)
             h1     == link(alloc(nodes, branch, Branch(cut.q, cut.p, Top.parent)),
                            Top.parent, Top.side, branch)
             here   == [Top EXCEPT !.depth = depth, !.at = "r",
                                   !.branch = branch, !.S2 = S2]
         IN IF cut.exc # "None"
            THEN Failed(cut.exc)
            ELSE IF Cardinality(S1) > 1
            THEN /\ root' = IF Top.parent = Self THEN branch ELSE root
                 /\ nodes' = h1
                 /\ leaves' = leaves
                 /\ stack' = Append(Append(Pop(stack), here),
                                    Frame(S1, branch, "l", depth))
                 /\ UNCHANGED <<X, pc, ret, clean>>
            ELSE IF Cardinality(S1) = 0
            THEN Failed("ValueError")
            ELSE LET i == CHOOSE k \in S1 : TRUE
                 IN /\ root' = IF Top.parent = Self THEN branch ELSE root
                    /\ nodes' = addLeaf(h1, branch, "l", i, depth)
                    /\ leaves' = [k \in DOMAIN leaves \cup {i} |->
                                    IF k = i THEN newId(h1) ELSE leaves[k]]
                    /\ stack' = Append(Pop(stack), here)
                    /\ UNCHANGED <<X, pc, ret, clean>>

\* _mktree lines 74-87: the right side.  np.asscalar of an empty
\* np.flatnonzero(S2) raises ValueError.
MktreeRight ==
    /\ pc = "mktree" /\ stack # << >> /\ Top.at = "r"
    /\ IF Cardinality(Top.S2) > 1
       THEN /\ stack' = Append(Append(Pop(stack), [Top EXCEPT !.at = "ret"]),
                               Frame(Top.S2, Top.branch, "r", Top.depth))
            /\ UNCHANGED <<X, nodes, root, leaves, pc, ret, clean>>
       ELSE IF Cardinality(Top.S2) = 0
       THEN Failed("ValueError")
       ELSE LET i == CHOOSE k \in Top.S2 : TRUE
            IN /\ nodes' = addLeaf(nodes, Top.branch, "r", i, Top.depth)
               /\ leaves' = [k \in DOMAIN leaves \cup {i} |->
                               IF k = i THEN newId(nodes) ELSE leaves[k]]
               /\ stack' = Pop(stack)
               /\ UNCHANGED <<X, root, pc, ret, clean>>

\* Return from the recursive call of line 77.
MktreeReturn ==
    /\ pc = "mktree" /\ stack # << >> /\ Top.at = "ret"
    /\ stack' = Pop(stack)
    /\ UNCHANGED <<X, nodes, root, leaves, pc, ret, clean>>

\* __init__ lines 30-33: clear the root's parent, count the leaves.
InitDone ==
    /\ pc = "mktree" /\ stack = << >>
    /\ nodes' = _count_all_top_down([nodes EXCEPT ![root].u = Nil], root)
    /\ pc' = "ready"
    /\ UNCHANGED <<X, root, leaves, stack, ret, clean>>

\* ----------------------------------------------------------- call results
Return(v) == [exc |-> "None", val |-> v]

Raise(e) == [exc |-> e, val |-> Nil]

\* ----------------------------------------------------------- delete_leaf
\* x.d += inc on every node the traversal hands to _increment_depth.
_increment_depth(h, visited, inc) ==
    [k \in DOMAIN h |-> IF k \in Range(visited)
                        THEN [h[k] EXCEPT !.d = h[k].d + inc] ELSE h[k]]

\* delete_leaf relinking the grandparent's l whichever side the parent was.
splice_leftOnly(h, node) ==
    LET parent == h[node].u
    IN IF parent = Nil
       THEN [exc |-> "AttributeError", nodes |-> h]
       ELSE LET grandparent == h[parent].u
                sibling == IF node = h[parent].l THEN h[parent].r ELSE h[parent].l
                h1 == [h EXCEPT ![sibling].u = grandparent]
            IN IF grandparent = Nil
               THEN [exc |-> "AttributeError", nodes |-> h1]
               ELSE LET h2 == [h1 EXCEPT ![grandparent].l = sibling]
                    IN [exc |-> "None",
                        nodes |-> _increment_depth(h2, traverse(h2, grandparent), -1)]

\* delete_leaf lines 93-111, once the leaf is popped: the heap and the
\* exception it ends with.  None has no attribute u, l or r: reading one
\* raises AttributeError and leaves behind what was assigned before.
splice(h, node) ==
    LET parent == h[node].u
    IN IF parent = Nil
       THEN [exc |-> "AttributeError", nodes |-> h]
       ELSE LET grandparent == h[parent].u
                sibling == IF node = h[parent].l THEN h[parent].r ELSE h[parent].l
                h1 == [h EXCEPT ![sibling].u = grandparent]
            IN IF grandparent = Nil
               THEN [exc |-> "AttributeError", nodes |-> h1]
               ELSE LET h2 == IF parent = h1[grandparent].l
                              THEN [h1 EXCEPT ![grandparent].l = sibling]
                              ELSE [h1 EXCEPT ![grandparent].r = sibling]
                    IN [exc |-> "None",
                        nodes |-> _increment_depth(h2, traverse(h2, grandparent), -1)]

\* delete_leaf written with leaves.pop(x, None): a missing key goes on to
\* read node.u of None.
delete_leaf_popDefault(h, lv, x) ==
    IF x \notin DOMAIN lv
    THEN [exc |-> "AttributeError", nodes |-> h, leaves |-> lv]
    ELSE [exc |-> splice(h, lv[x]).exc, nodes |-> splice(h, lv[x]).nodes,
          leaves |-> [k \in DOMAIN lv \ {x} |-> lv[k]]]

\* delete_leaf(x): leaves.pop(x) raises KeyError for a missing key.
delete_leaf(h, lv, x) ==
    IF x \notin DOMAIN lv
    THEN [exc |-> "KeyError", nodes |-> h, leaves |-> lv]
    ELSE [exc |-> splice(h, lv[x]).exc, nodes |-> splice(h, lv[x]).nodes,
          leaves |-> [k \in DOMAIN lv \ {x} |-> lv[k]]]

\* ----------------------------------------------------------------- query
\* _query comparing with < where the cut compared with <=.
RECURSIVE _query_strict(_, _, _)
_query_strict(h, point, node) ==
    IF isLeaf(h, node)
    THEN node
    ELSE IF point[h[node].q] < h[node].p
         THEN _query_strict(h, point, h[node].l)
         ELSE _query_strict(h, point, h[node].r)

RECURSIVE _query(_, _, _)
_query(h, point, node) ==
    IF isLeaf(h, node)
    THEN node
    ELSE IF point[h[node].q] <= h[node].p
         THEN _query(h, point, h[node].l)
         ELSE _query(h, point, h[node].r)

query(h, rt, point) == _query(h, point, rt)

\* ------------------------------------------------------------------ disp
\* _accumulate adds 1 per node handed to it.
_count(h, node) == Len(traverse(h, node))

\* disp reading the sibling's stored n instead of counting its leaves.
disp_stored(h, lv, x) ==
    IF x \notin DOMAIN lv
    THEN Raise("KeyError")
    ELSE LET node   == lv[x]
             parent == h[node].u
         IN IF parent = Nil
            THEN Raise("AttributeError")
            ELSE LET sibling == IF node = h[parent].l THEN h[parent].r
                                                      ELSE h[parent].l
                 IN Return(h[sibling].n)

disp(h, lv, x) ==
    IF x \notin DOMAIN lv
    THEN Raise("KeyError")
    ELSE LET node   == lv[x]
             parent == h[node].u
         IN IF parent = Nil
            THEN Raise("AttributeError")
            ELSE LET sibling == IF node = h[parent].l THEN h[parent].r
                                                      ELSE h[parent].l
                 IN Return(_count(h, sibling))

\* ---------------------------------------------------------------- ratios
\* displacement / num_deleted (true division) as the exact fraction
\* <<num, den>> in lowest terms.
RECURSIVE gcd(_, _)
gcd(a, b) == IF b = 0 THEN a ELSE gcd(b, a % b)

ratio(num, den) ==
    LET g == gcd(num, den)
    IN IF g = 0 THEN <<num, den>> ELSE <<num \div g, den \div g>>

ratioLeq(a, b) == a[1] * b[2] <= b[1] * a[2]

\* max(results) of a non-empty list.
max(results) == CHOOSE m \in Range(results) : \A r \in Range(results) : ratioLeq(r, m)

\* ---------------------------------------------------------------- codisp
\* The for loop of codisp with k iterations left; displacement and
\* num_deleted are the two accumulators as they stand on entry.
RECURSIVE codispLoop(_, _, _, _, _)
codispLoop(h, node, k, displacement, num_deleted) ==
    IF k <= 0 \/ h[node].u = Nil
    THEN << >>
    ELSE LET parent  == h[node].u
             sibling == IF node = h[parent].l THEN h[parent].r ELSE h[parent].l
             nd      == num_deleted + _count(h, node)
             dp      == displacement + _count(h, sibling)
         IN << ratio(dp, nd) >> \o codispLoop(h, parent, k - 1, dp, nd)

codisp(h, lv, x) ==
    IF x \notin DOMAIN lv
    THEN Raise("KeyError")
    ELSE LET results == codispLoop(h, lv[x], h[lv[x]].d, 0, 0)
         IN IF results = << >> THEN Raise("ValueError")
                               ELSE Return(max(results))

\* -------------------------------------------------------------- disp_all
disp_all(h, lv) ==
    IF \E index \in DOMAIN lv : h[lv[index]].u = Nil
    THEN Raise("AttributeError")
    ELSE Return([index \in DOMAIN lv |->
                   LET node    == lv[index]
                       parent  == h[node].u
                       sibling == IF node = h[parent].l THEN h[parent].r
                                                        ELSE h[parent].l
                   IN h[sibling].n])

\* ------------------------------------------------------------ codisp_all
\* The inner for loop of codisp_all with k iterations left.
RECURSIVE codispAllLoop(_, _, _)
codispAllLoop(h, node, k) ==
    IF k <= 0 \/ h[node].u = Nil
    THEN << >>
    ELSE LET parent  == h[node].u
             sibling == IF node = h[parent].l THEN h[parent].r ELSE h[parent].l
         IN << ratio(h[sibling].n, h[node].n) >> \o codispAllLoop(h, parent, k - 1)

leafResults(h, lv, index) == codispAllLoop(h, lv[index], h[lv[index]].d)

codisp_all(h, lv) ==
    IF \E index \in DOMAIN lv : leafResults(h, lv, index) = << >>
    THEN Raise("ValueError")
    ELSE Return([index \in DOMAIN lv |-> max(leafResults(h, lv, index))])

\* --------------------------------------------------------------- actions
\* The indices calls are made with: every index of the batch, and one
\* that never was a point index.
Indices == 0..Cardinality(DOMAIN X)

Called(op, x, res) == [op |-> op, x |-> x, exc |-> res.exc, val |-> res.val]

DeleteLeaf(x) ==
    /\ pc = "ready"
    /\ LET res == delete_leaf(nodes, leaves, x)
       IN /\ nodes' = res.nodes
          /\ leaves' = res.leaves
          /\ ret' = [op |-> "delete_leaf", x |-> x, exc |-> res.exc, val |-> Nil]
          /\ clean' = (clean /\ res.exc = "None")
    /\ UNCHANGED <<X, root, stack, pc>>

Disp(x) ==
    /\ pc = "ready"
    /\ ret' = Called("disp", x, disp(nodes, leaves, x))
    /\ UNCHANGED <<X, nodes, root, leaves, stack, pc, clean>>

Codisp(x) ==
    /\ pc = "ready"
    /\ ret' = Called("codisp", x, codisp(nodes, leaves, x))
    /\ UNCHANGED <<X, nodes, root, leaves, stack, pc, clean>>

DispAll ==
    /\ pc = "ready"
    /\ ret' = Called("disp_all", Nil, disp_all(nodes, leaves))
    /\ UNCHANGED <<X, nodes, root, leaves, stack, pc, clean>>

CodispAll ==
    /\ pc = "ready"
    /\ ret' = Called("codisp_all", Nil, codisp_all(nodes, leaves))
    /\ UNCHANGED <<X, nodes, root, leaves, stack, pc, clean>>

\* query(X[i]) for a point of the batch.
Query(i) ==
    /\ pc = "ready"
    /\ ret' = Called("query", i, Return(query(nodes, root, X[i])))
    /\ UNCHANGED <<X, nodes, root, leaves, stack, pc, clean>>

Next ==
    \/ MktreeLeft
    \/ MktreeRight
    \/ MktreeReturn
    \/ InitDone
    \/ \E x \in Indices : DeleteLeaf(x)
    \/ \E x \in Indices : Disp(x)
    \/ \E x \in Indices : Codisp(x)
    \/ DispAll
    \/ CodispAll
    \/ \E i \in DOMAIN X : Query(i)

Spec == Init /\ [][Next]_vars

\* Construction and the read-only calls, on batches of up to MaxFresh points.
NextFresh ==
    \/ MktreeLeft
    \/ MktreeRight
    \/ MktreeReturn
    \/ InitDone
    \/ \E x \in Indices : Disp(x)
    \/ \E x \in Indices : Codisp(x)
    \/ DispAll
    \/ CodispAll
    \/ \E i \in DOMAIN X : Query(i)

SpecFresh == InitFresh /\ [][NextFresh]_vars

\* Construction alone, on batches with or without coincident points.
NextBuild ==
    \/ MktreeLeft
    \/ MktreeRight
    \/ MktreeReturn
    \/ InitDone

SpecBuild == InitAny /\ [][NextBuild]_vars

\* ============================================================ properties
\* Vocabulary of the properties, read off the links of the heap and
\* independent of the maintained fields d and n.

\* The nodes of the subtree hanging from node.
RECURSIVE subtree(_, _)
subtree(h, node) ==
    IF node \notin DOMAIN h THEN {}
    ELSE IF h[node].kind = "Branch"
         THEN {node} \cup subtree(h, h[node].l) \cup subtree(h, h[node].r)
         ELSE {node}

leafSet(h, node) == {k \in subtree(h, node) : h[k].kind = "Leaf"}

numLeaves(h, node) == Cardinality(leafSet(h, node))

\* The Branch nodes met following parent links from node.
RECURSIVE branchAncestors(_, _)
branchAncestors(h, node) ==
    IF h[node].u \notin DOMAIN h THEN 0
    ELSE 1 + branchAncestors(h, h[node].u)

Ready == pc = "ready"

\* Construction is over and every delete_leaf call so far returned normally.
AfterSuccessfulDeletes == Ready /\ clean

SomeDeleteSucceeded == Cardinality(DOMAIN leaves) < Cardinality(DOMAIN X)

\* C1: after construction and any sequence of successful delete_leaf calls,
\* every Leaf has n = 1 and every Branch reachable from the root has n equal
\* to the sum of its two children's n.
C1_CountInvariant ==
    AfterSuccessfulDeletes =>
        \A k \in subtree(nodes, root) :
            IF nodes[k].kind = "Leaf"
            THEN nodes[k].n = 1
            ELSE nodes[k].n = nodes[nodes[k].l].n + nodes[nodes[k].r].n

\* C2: after construction and any sequence of successful delete_leaf calls,
\* every leaf of the leaf map has d equal to the number of Branch nodes on
\* its path to the root.
C2_DepthInvariant ==
    AfterSuccessfulDeletes =>
        \A x \in DOMAIN leaves :
            nodes[leaves[x]].d = branchAncestors(nodes, leaves[x])

\* C3: after construction and any sequence of successful delete_leaf calls,
\* disp_all() returns, and its entry for every index of the leaf map is what
\* disp returns for that index.
C3_DispAllAgrees ==
    AfterSuccessfulDeletes =>
        /\ disp_all(nodes, leaves).exc = "None"
        /\ \A x \in DOMAIN leaves :
             disp(nodes, leaves, x) = Return(disp_all(nodes, leaves).val[x])

\* C4: on every constructed tree and after any sequence of successful
\* delete_leaf calls, codisp_all() returns, and its entry for every index of
\* the leaf map is the fraction codisp returns for that index.
C4_CodispAllAgrees ==
    AfterSuccessfulDeletes =>
        /\ codisp_all(nodes, leaves).exc = "None"
        /\ \A x \in DOMAIN leaves :
             codisp(nodes, leaves, x) = Return(codisp_all(nodes, leaves).val[x])

\* The ratio of each ancestor level of node, from the counts of that level
\* alone: leaves under the sibling over leaves under the node.
otherChild(h, node) ==
    CHOOSE c \in {h[h[node].u].l, h[h[node].u].r} : c # node

RECURSIVE levelRatios(_, _)
levelRatios(h, node) ==
    IF h[node].u \notin DOMAIN h THEN {}
    ELSE {ratio(numLeaves(h, otherChild(h, node)), numLeaves(h, node))}
         \cup levelRatios(h, h[node].u)

Fresh == Ready /\ DOMAIN leaves = DOMAIN X

\* C5: on a freshly constructed tree, codisp(x) is the largest, over the
\* ancestor levels of x's leaf from its parent up to the root, of the number
\* of leaves under the sibling divided by the number of leaves under the
\* node on x's side, both counted at that level alone.
C5_CodispIsMaxLevelRatio ==
    Fresh =>
        \A x \in DOMAIN leaves :
            /\ codisp(nodes, leaves, x).exc = "None"
            /\ codisp(nodes, leaves, x).val \in levelRatios(nodes, leaves[x])
            /\ \A r \in levelRatios(nodes, leaves[x]) :
                 ratioLeq(r, codisp(nodes, leaves, x).val)

\* C6: after construction and any sequence of successful delete_leaf calls,
\* query(X[i]) for every index i of the leaf map returns leaves[i], the leaf
\* whose i field is i.
C6_QueryFindsSurvivors ==
    AfterSuccessfulDeletes =>
        \A i \in DOMAIN leaves :
            /\ query(nodes, root, X[i]) = leaves[i]
            /\ nodes[leaves[i]].i = i

\* A query for a surviving point has returned its leaf, after a delete, in a
\* tree whose root cuts dimension 1.
C6_Witness ==
    /\ AfterSuccessfulDeletes /\ SomeDeleteSucceeded
    /\ nodes[root].q = 1
    /\ ret.op = "query" /\ ret.x \in DOMAIN leaves /\ ret.val = leaves[ret.x]

\* C7: after any sequence of delete_leaf calls, whatever their outcome, the
\* point indices on the leaves reachable from the root are the keys of the
\* leaf map, each on one leaf.
C7_LeafMapAgrees ==
    Ready =>
        /\ {nodes[k].i : k \in leafSet(nodes, root)} = DOMAIN leaves
        /\ \A k1, k2 \in leafSet(nodes, root) :
             nodes[k1].i = nodes[k2].i => k1 = k2

\* C8: after construction and any sequence of successful delete_leaf calls,
\* codisp(x) and codisp_all() return for every index of the leaf map, with a
\* value >= 0 that is a ratio of denominator >= 1.
C8_CodispDefined ==
    AfterSuccessfulDeletes =>
        /\ codisp_all(nodes, leaves).exc = "None"
        /\ \A x \in DOMAIN leaves :
             /\ codisp(nodes, leaves, x).exc = "None"
             /\ codisp(nodes, leaves, x).val[1] >= 0
             /\ codisp(nodes, leaves, x).val[2] >= 1
             /\ codisp_all(nodes, leaves).val[x][1] >= 0
             /\ codisp_all(nodes, leaves).val[x][2] >= 1

\* C9: after construction and any sequence of successful delete_leaf calls,
\* disp(x) for every index of the leaf map is the number of leaves now under
\* the other child of x's parent, between 1 and the number of leaves of the
\* tree minus 1.
C9_DispIsSiblingSize ==
    AfterSuccessfulDeletes =>
        \A x \in DOMAIN leaves :
            LET size == numLeaves(nodes, otherChild(nodes, leaves[x]))
            IN /\ disp(nodes, leaves, x) = Return(size)
               /\ 1 <= size
               /\ size <= numLeaves(nodes, root) - 1

\* disp has returned the size of a sibling subtree whose stored n is stale
\* after a delete.
C9_Witness ==
    /\ AfterSuccessfulDeletes /\ SomeDeleteSucceeded
    /\ ret.op = "disp" /\ ret.exc = "None" /\ ret.x \in DOMAIN leaves
    /\ ret.val >= 2
    /\ nodes[otherChild(nodes, leaves[ret.x])].n # ret.val

\* C10: a delete_leaf, disp or codisp call with an index that is not in the
\* leaf map raises KeyError and leaves the heap (links, d, n), the root and
\* the leaf map as they were.
C10_AbsentRejected ==
    [][(/\ Ready
        /\ ret'.op \in {"delete_leaf", "disp", "codisp"}
        /\ ret'.x \notin DOMAIN leaves)
       => (/\ ret'.exc = "KeyError"
           /\ UNCHANGED <<nodes, root, leaves>>)]_vars

\* delete_leaf has been refused for an index deleted earlier.
C10_Witness ==
    /\ Ready
    /\ ret.op = "delete_leaf" /\ ret.exc = "KeyError"
    /\ ret.x \in DOMAIN X /\ ret.x \notin DOMAIN leaves

\* A delete_leaf call on an index of the leaf map is made in this step.
DeletePresent == Ready /\ ret'.op = "delete_leaf" /\ ret'.x \in DOMAIN leaves

\* C11: when one point remains and its leaf has no parent, delete_leaf on
\* that point raises, and the point stays in the leaf map and the tree.
C11_LastPointKept ==
    [][(/\ DeletePresent
        /\ Cardinality(DOMAIN leaves) = 1
        /\ nodes[leaves[ret'.x]].u = Nil)
       => (/\ ret'.exc # "None"
           /\ UNCHANGED <<nodes, root, leaves>>)]_vars

\* C12: a cut over an active subset of coincident points ends construction
\* with a DegenerateInput error: no cut is picked from the NaN distribution
\* and no further call is made.
C12_DegenerateRejected ==
    [][(/\ pc = "mktree" /\ stack # << >> /\ Top.at = "l"
        /\ Cardinality(Top.S) >= 2 /\ degenerate(X, Top.S))
       => (pc' = "failed" /\ ret'.exc = "DegenerateInput")]_vars

branchSet(h, node) == {k \in subtree(h, node) : h[k].kind = "Branch"}

\* Every Branch under the root has two children, and there is one Branch
\* less than there are Leaves.
FullBinary ==
    /\ \A b \in branchSet(nodes, root) :
         nodes[b].l \in DOMAIN nodes /\ nodes[b].r \in DOMAIN nodes
    /\ Cardinality(branchSet(nodes, root)) = numLeaves(nodes, root) - 1

\* C13: after construction and any sequence of delete_leaf calls, whatever
\* their outcome, the tree under the root is a full binary tree, and a
\* delete_leaf call that returns normally takes exactly one Leaf and one
\* Branch out of it.
C13_FullBinaryTree ==
    [][Ready' =>
         /\ FullBinary'
         /\ (DeletePresent /\ ret'.exc = "None") =>
              /\ numLeaves(nodes', root') = numLeaves(nodes, root) - 1
              /\ Cardinality(branchSet(nodes', root'))
                   = Cardinality(branchSet(nodes, root)) - 1]_vars

\* Two deletes have returned normally on a 4-point tree, after one that
\* raised.
C13_Witness ==
    /\ Ready /\ ~clean
    /\ ret.op = "delete_leaf" /\ ret.exc = "None"
    /\ Cardinality(DOMAIN X) = 4
    /\ numLeaves(nodes, root) = 2

\* The delete_leaf call of this step is made on a present leaf whose parent
\* is the root Branch.
DeleteUnderRoot ==
    /\ DeletePresent
    /\ isBranch(nodes, root)
    /\ nodes[leaves[ret'.x]].u = root

\* C15: delete_leaf(x) on a present leaf whose parent is the root Branch
\* returns normally; afterwards x's former sibling is the root and has no
\* parent, x is out of the leaf map, and the old root Branch is not
\* reachable from the root.
C15_DeleteUnderRoot ==
    [][DeleteUnderRoot =>
         /\ ret'.exc = "None"
         /\ root' = otherChild(nodes, leaves[ret'.x])
         /\ nodes'[root'].u = Nil
         /\ ret'.x \notin DOMAIN leaves'
         /\ root \notin subtree(nodes', root')]_vars

\* C16: after construction and any sequence of successful delete_leaf
\* calls, codisp(x) and codisp_all() evaluate, for every index x of the leaf
\* map, as many ratios as x's leaf has Branch ancestors.
C16_CodispClimbsToRoot ==
    AfterSuccessfulDeletes =>
        \A x \in DOMAIN leaves :
            /\ Len(codispLoop(nodes, leaves[x], nodes[leaves[x]].d, 0, 0))
                 = branchAncestors(nodes, leaves[x])
            /\ Len(leafResults(nodes, leaves, x))
                 = branchAncestors(nodes, leaves[x])

\* C17: a delete_leaf(x) that returns normally lowers d by exactly 1 for
\* every leaf under x's former sibling and leaves d as it was for every
\* other leaf of the leaf map.
C17_DepthFootprint ==
    [][(DeletePresent /\ ret'.exc = "None") =>
         \A y \in DOMAIN leaves' :
            nodes'[leaves'[y]].d =
               IF leaves[y] \in leafSet(nodes, otherChild(nodes, leaves[ret'.x]))
               THEN nodes[leaves[y]].d - 1
               ELSE nodes[leaves[y]].d]_vars

\* C18: construction on a batch of pairwise-distinct points never ends with
\* an exception, whatever cuts are drawn, and the tree it returns has one
\* leaf per index of the batch, leaves[i] being the leaf whose i is i, and
\* a root without a parent.
C18_ConstructionCovers ==
    /\ pc # "failed"
    /\ (Ready /\ ret = NoRet) =>
         /\ DOMAIN leaves = DOMAIN X
         /\ numLeaves(nodes, root) = Cardinality(DOMAIN X)
         /\ \A i \in DOMAIN X :
              /\ isLeaf(nodes, leaves[i])
              /\ leaves[i] \in subtree(nodes, root)
              /\ nodes[leaves[i]].i = i
         /\ nodes[root].u = Nil

\* C19: every cut made during construction over a subset S of at least two
\* points that are not all the same has a dimension q with max_q > min_q
\* over S, and its threshold p splits S into a non-empty S1 (coordinate q
\* at most p) and a non-empty S2 (the rest) that are disjoint and together
\* make S.
C19_ProperSplit ==
    \A k \in 1..Len(stack) :
        (/\ stack[k].at \in {"r", "ret"}
         /\ Cardinality(stack[k].S) >= 2
         /\ ~degenerate(X, stack[k].S)) =>
            LET S  == stack[k].S
                q  == nodes[stack[k].branch].q
                p  == nodes[stack[k].branch].p
                S1 == cutS1(X, S, q, p)
                S2 == stack[k].S2
            IN /\ xmax(X, S)[q] > xmin(X, S)[q]
               /\ S1 # {} /\ S2 # {}
               /\ S1 \cap S2 = {}
               /\ S1 \cup S2 = S

\* The node reached from node by following parent references to the end.
RECURSIVE topOf(_, _)
topOf(h, node) ==
    IF h[node].u \notin DOMAIN h THEN node ELSE topOf(h, h[node].u)

\* C20: after construction and any sequence of delete_leaf calls, whatever
\* their outcome, the root has no parent, both children of every Branch
\* under the root name it as their parent, and following parent references
\* from every leaf of the leaf map ends at the root.
C20_LinksAgree ==
    Ready =>
        /\ nodes[root].u = Nil
        /\ \A b \in branchSet(nodes, root) :
             /\ nodes[nodes[b].l].u = b
             /\ nodes[nodes[b].r].u = b
        /\ \A x \in DOMAIN leaves : topOf(nodes, leaves[x]) = root

====
